---- MODULE Spec2Model ----
(***************************************************************************)
(* Model of the COT positioning analytics of pages/1_COT_MM_Dashboard.py:  *)
(* the per-commodity metrics pass (calculate_cot_metrics), the selection   *)
(* of current rows and the latest-row table behind the alert panel.        *)
(*                                                                         *)
(* Numbers.  A pandas float cell is modelled exactly, as a record          *)
(*   [k |-> "fin" | "nan" | "pinf" | "ninf" | "raise", n |-> Int, d |-> Int]*)
(* where a finite value is the rational n/d with d > 0.  "raise" stands    *)
(* for an exception leaving the operation; the code as written never       *)
(* produces it.                                                            *)
(*                                                                         *)
(* Dates.  Report_Date is a day number counted from start_history          *)
(* (1 January, years_back_history years back); all timestamps are          *)
(* midnights.  Durations with a fractional day are kept in quarter days.   *)
(***************************************************************************)
EXTENDS Integers, Sequences, FiniteSets, TLC

\* ------------------------------------------------------------------------
\* Bounds of the model
\* ------------------------------------------------------------------------
MaxRecs == 3

\* ------------------------------------------------------------------------
\* Program constants
\* ------------------------------------------------------------------------
years_back_current == 1
years_back_history == 3
\* 365.25 days, in quarter days
QuarterDaysPerYear == 1461
\* datetime.date(end.year - years_back_current, 1, 1) as a day number:
\* two calendar years after start_history, one of them a leap year
start_current == 731
OverboughtLevel == 90
OversoldLevel == 10

\* two of the names of common_commodities, in sort order
common_commodities == <<"CORN", "GOLD">>

\* days of the trailing window on midnight timestamps: 3 * 365.25 days is
\* 1095 days and 18 hours
TrailingWindowDays == 1095

\* Report dates of the model.  For CORN: 1096 - 1 and 1097 - 2 are exactly
\* 1095 days (inside the window), 1097 - 1 is 1096 days (outside); 1 and 2
\* are before start_current, 1096 and 1097 are not.
ReportDatesOf(name) == IF name = "CORN" THEN {1, 2, 1096, 1097} ELSE {1097}

\* ------------------------------------------------------------------------
\* Float cells
\* ------------------------------------------------------------------------
Fin(n, d) == [k |-> "fin", n |-> n, d |-> d]
NaN == [k |-> "nan", n |-> 0, d |-> 1]
PInf == [k |-> "pinf", n |-> 0, d |-> 1]
NInf == [k |-> "ninf", n |-> 0, d |-> 1]
Raised == [k |-> "raise", n |-> 0, d |-> 1]

\* pd.isna
isna(x) == x.k = "nan"

\* a <= b, a < b and a > b on floats; any comparison with NaN is False
FloatLE(a, b) == a.k = "fin" /\ b.k = "fin" /\ a.n * b.d <= b.n * a.d
FloatLT(a, b) == a.k = "fin" /\ b.k = "fin" /\ a.n * b.d < b.n * a.d
FloatGT(a, b) == FloatLT(b, a)

\* ------------------------------------------------------------------------
\* Raw cells, as delivered by the report download: an integer, a string
\* holding an integer, a string that is no number, or a missing value
\* ------------------------------------------------------------------------
IntCell(v) == [k |-> "int", v |-> v]
NumStr(v) == [k |-> "numstr", v |-> v]
BadStr == [k |-> "badstr", v |-> 0]
NoneCell == [k |-> "none", v |-> 0]

\* pd.to_numeric(col, errors='coerce') on one cell
to_numeric(c) ==
    IF c.k \in {"int", "numstr"} THEN Fin(c.v, 1) ELSE NaN

\* a - b on float cells (operands are finite or NaN)
FloatSub(a, b) ==
    IF a.k = "raise" \/ b.k = "raise" THEN Raised
    ELSE IF a.k = "fin" /\ b.k = "fin" THEN Fin(a.n * b.d - b.n * a.d, a.d * b.d)
    ELSE NaN

\* a / b with Python's scalar rule: a zero divisor raises
FloatDivRaise(a, b) ==
    IF a.k = "raise" \/ b.k = "raise" THEN Raised
    ELSE IF a.k # "fin" \/ b.k # "fin" THEN NaN
    ELSE IF b.n = 0 THEN Raised
    ELSE IF b.n > 0 THEN Fin(a.n * b.d, a.d * b.n)
    ELSE Fin(-(a.n * b.d), a.d * (-b.n))

\* a / b on float columns: x/0 is +-inf, 0/0 is NaN, nothing raises
FloatDiv(a, b) ==
    IF a.k = "raise" \/ b.k = "raise" THEN Raised
    ELSE IF a.k # "fin" \/ b.k # "fin" THEN NaN
    ELSE IF b.n = 0 THEN (IF a.n > 0 THEN PInf ELSE IF a.n < 0 THEN NInf ELSE NaN)
    ELSE IF b.n > 0 THEN Fin(a.n * b.d, a.d * b.n)
    ELSE Fin(-(a.n * b.d), a.d * (-b.n))

\* a * 100
Times100(a) == IF a.k = "fin" THEN Fin(100 * a.n, a.d) ELSE a

\* the identity, in place of the replacement of infinities
keep_inf(x) == x

\* df.replace([np.inf, -np.inf], np.nan) on one cell
replace_inf(x) == IF x.k \in {"pinf", "ninf"} THEN NaN ELSE x

\* ------------------------------------------------------------------------
\* Input tables
\* ------------------------------------------------------------------------
\* (long, short, open interest) of a report row
RawRows == {
    <<NumStr(2), IntCell(1), IntCell(1)>>,
    <<IntCell(1), IntCell(2), IntCell(2)>>,
    <<IntCell(2), IntCell(1), IntCell(0)>>,
    <<IntCell(1), IntCell(2), IntCell(0)>>,
    <<IntCell(1), IntCell(1), IntCell(0)>>,
    <<BadStr, IntCell(1), IntCell(1)>>,
    <<IntCell(1), NoneCell, IntCell(1)>>,
    <<IntCell(2), IntCell(1), BadStr>> }

NameRank(name) == CHOOSE p \in 1..Len(common_commodities) : common_commodities[p] = name
Names == {common_commodities[p] : p \in 1..Len(common_commodities)}

Keys == UNION {{<<name, d>> : d \in ReportDatesOf(name)} : name \in Names}
KeyLess(a, b) ==
    \/ NameRank(a[1]) < NameRank(b[1])
    \/ a[1] = b[1] /\ a[2] < b[2]

\* the keys of ks in (name, date) order
SortedKeys(ks) ==
    [p \in 1..Cardinality(ks) |->
        CHOOSE key \in ks : Cardinality({o \in ks : KeyLess(o, key)}) = p - 1]

RawRecord(key, cells) ==
    [Market_and_Exchange_Names |-> key[1],
     Report_Date |-> key[2],
     M_Money_Positions_Long_All |-> cells[1],
     M_Money_Positions_Short_All |-> cells[2],
     Open_Interest_All |-> cells[3]]

\* ------------------------------------------------------------------------
\* calculate_cot_metrics, step by step
\* ------------------------------------------------------------------------
\* a sequence given as a function on 1..n, as a tuple
AsTuple(f) == SubSeq(f, 1, Len(f))

\* df.sort_values(by='Report_Date').reset_index(drop=True): a stable sort
sort_values(s) ==
    LET Pos(i) == 1 + Cardinality({j \in 1..Len(s) :
                        \/ s[j].Report_Date < s[i].Report_Date
                        \/ (s[j].Report_Date = s[i].Report_Date /\ j < i)})
    IN  AsTuple([p \in 1..Len(s) |-> s[CHOOSE i \in 1..Len(s) : Pos(i) = p]])

\* one row after lines 89-100: numeric columns, Net_Position,
\* Net_Position_%_OI with infinities replaced, Percentile_Rank = NaN
RatioRow(r) ==
    LET long == to_numeric(r.M_Money_Positions_Long_All)
        short == to_numeric(r.M_Money_Positions_Short_All)
        oi == to_numeric(r.Open_Interest_All)
        net == FloatSub(long, short)
    IN  [Market_and_Exchange_Names |-> r.Market_and_Exchange_Names,
         Report_Date |-> r.Report_Date,
         M_Money_Positions_Long_All |-> replace_inf(long),
         M_Money_Positions_Short_All |-> replace_inf(short),
         Open_Interest_All |-> replace_inf(oi),
         Net_Position |-> replace_inf(net),
         Net_Position_pct_OI |-> replace_inf(Times100(FloatDiv(net, oi))),
         Percentile_Rank |-> NaN,
         Alert |-> "",
         Prior_Week_Net_Position_pct_OI |-> NaN,
         Trend |-> ""]

\* lines 89-100 on the group object: every statement assigns into it or
\* replaces in place
CoerceInPlace(rows) == AsTuple([p \in 1..Len(rows) |-> RatioRow(rows[p])])

\* lines 89-103 on a group: line 103 binds df_commodity to a sorted copy
PrepareGroup(rows) == sort_values(CoerceInPlace(rows))

HasRaised(rows) ==
    \E p \in 1..Len(rows) :
        \/ rows[p].M_Money_Positions_Long_All.k = "raise"
        \/ rows[p].M_Money_Positions_Short_All.k = "raise"
        \/ rows[p].Open_Interest_All.k = "raise"
        \/ rows[p].Net_Position.k = "raise"
        \/ rows[p].Net_Position_pct_OI.k = "raise"

\* a window that also takes the current and all later reports
window_mask_no_upper(dfc, i) ==
    {j \in 1..Len(dfc) :
        4 * dfc[j].Report_Date >= 4 * dfc[i].Report_Date - years_back_history * QuarterDaysPerYear}

\* a window whose lower bound is exclusive
window_mask_open_low(dfc, i) ==
    {j \in 1..Len(dfc) :
        /\ dfc[j].Report_Date > dfc[i].Report_Date - TrailingWindowDays
        /\ dfc[j].Report_Date < dfc[i].Report_Date}

\* the boolean mask of lines 114-116: rows of the group whose Report_Date is
\* in [current_date - 3 * 365.25 days, current_date)
window_mask(dfc, i) ==
    {j \in 1..Len(dfc) :
        /\ 4 * dfc[j].Report_Date >= 4 * dfc[i].Report_Date - years_back_history * QuarterDaysPerYear
        /\ dfc[j].Report_Date < dfc[i].Report_Date}

\* ['Net_Position_%_OI'] without .dropna()
historical_keep_na(dfc, i) == window_mask(dfc, i)

\* ['Net_Position_%_OI'].dropna().values of line 117, as row positions
historical_values(dfc, i) ==
    {j \in window_mask(dfc, i) : ~isna(dfc[j].Net_Position_pct_OI)}

\* stats.percentileofscore(a, score, kind='strict')
percentileofscore_strict(dfc, hist, score) ==
    Fin(100 * Cardinality({j \in hist : FloatLT(dfc[j].Net_Position_pct_OI, score)}),
        Cardinality(hist))

\* the share of the window at or above the score
percentileofscore_above(dfc, hist, score) ==
    Fin(100 * Cardinality({j \in hist : FloatLE(score, dfc[j].Net_Position_pct_OI)}),
        Cardinality(hist))

\* the count of the window at or below the score, times 100, not divided
\* by the size of the window
percentileofscore_count(dfc, hist, score) ==
    Fin(100 * Cardinality({j \in hist : FloatLE(dfc[j].Net_Position_pct_OI, score)}), 1)

\* stats.percentileofscore(a, score, kind='weak')
percentileofscore(dfc, hist, score) ==
    Fin(100 * Cardinality({j \in hist : FloatLE(dfc[j].Net_Position_pct_OI, score)}),
        Cardinality(hist))

\* lines 119-123 without the test of the current value
rank_of_unchecked(dfc, i) ==
    LET hist == historical_values(dfc, i)
    IN  IF Cardinality(hist) > 0
        THEN percentileofscore(dfc, hist, dfc[i].Net_Position_pct_OI)
        ELSE dfc[i].Percentile_Rank

\* lines 119-123: the new Percentile_Rank of row i
rank_of(dfc, i) ==
    LET hist == historical_values(dfc, i)
        current_value == dfc[i].Net_Position_pct_OI
    IN  IF Cardinality(hist) > 0 /\ ~isna(current_value)
        THEN percentileofscore(dfc, hist, current_value)
        ELSE dfc[i].Percentile_Rank

\* comparison of a float column with an integer level
GEInt(x, level) == x.k = "fin" /\ x.n >= level * x.d
LEInt(x, level) == x.k = "fin" /\ x.n <= level * x.d

\* the flags with the overbought test strict
alert_of_strict(pr) ==
    IF LEInt(pr, OversoldLevel) THEN "Oversold"
    ELSE IF pr.k = "fin" /\ pr.n > OverboughtLevel * pr.d THEN "Overbought"
    ELSE "Gray: Neutral"

\* the flags with "not below the level" for the overbought test, which a
\* NaN passes
alert_of_not_below(pr) ==
    IF LEInt(pr, OversoldLevel) THEN "Oversold"
    ELSE IF ~(pr.k = "fin" /\ pr.n < OverboughtLevel * pr.d) THEN "Overbought"
    ELSE "Gray: Neutral"

\* lines 126-128
alert_of(pr) ==
    IF LEInt(pr, OversoldLevel) THEN "Oversold"
    ELSE IF GEInt(pr, OverboughtLevel) THEN "Overbought"
    ELSE "Gray: Neutral"

\* the trend against the last earlier ratio that is not null, instead of the
\* ratio of the row before
trend_of_last_valid(dfc, i) ==
    LET valid == {j \in 1..(i - 1) : ~isna(dfc[j].Net_Position_pct_OI)}
        prior == IF valid = {} THEN NaN
                 ELSE dfc[CHOOSE j \in valid : \A q \in valid : q <= j].Net_Position_pct_OI
        cur == dfc[i].Net_Position_pct_OI
    IN  IF FloatLT(cur, prior) THEN "Down"
        ELSE IF FloatGT(cur, prior) THEN "Up"
        ELSE ""

\* lines 131-134: shift(1) within the group and the two comparisons
trend_of(dfc, i) ==
    LET prior == IF i = 1 THEN NaN ELSE dfc[i - 1].Net_Position_pct_OI
        cur == dfc[i].Net_Position_pct_OI
    IN  IF FloatLT(cur, prior) THEN "Down"
        ELSE IF FloatGT(cur, prior) THEN "Up"
        ELSE ""

FlagRow(dfc, i) ==
    [dfc[i] EXCEPT
        !.Alert = alert_of(dfc[i].Percentile_Rank),
        !.Prior_Week_Net_Position_pct_OI =
            IF i = 1 THEN NaN ELSE dfc[i - 1].Net_Position_pct_OI,
        !.Trend = trend_of(dfc, i)]

\* ------------------------------------------------------------------------
\* groupby(...).last(): per column, the last non-null entry of the group
\* ------------------------------------------------------------------------
LastValid(rows, col) ==
    LET valid == {p \in 1..Len(rows) : ~isna(rows[p][col])}
    IN  IF valid = {} THEN NaN
        ELSE rows[CHOOSE p \in valid : \A q \in valid : q <= p][col]

group_last(rows) ==
    [Market_and_Exchange_Names |-> rows[1].Market_and_Exchange_Names,
     Report_Date |-> rows[Len(rows)].Report_Date,
     M_Money_Positions_Long_All |-> LastValid(rows, "M_Money_Positions_Long_All"),
     M_Money_Positions_Short_All |-> LastValid(rows, "M_Money_Positions_Short_All"),
     Open_Interest_All |-> LastValid(rows, "Open_Interest_All"),
     Net_Position |-> LastValid(rows, "Net_Position"),
     Net_Position_pct_OI |-> LastValid(rows, "Net_Position_pct_OI"),
     Percentile_Rank |-> LastValid(rows, "Percentile_Rank"),
     Alert |-> rows[Len(rows)].Alert,
     Prior_Week_Net_Position_pct_OI |-> LastValid(rows, "Prior_Week_Net_Position_pct_OI"),
     Trend |-> rows[Len(rows)].Trend]

\* no grouping: every commodity is handed the whole table
GroupOf_whole_table(table, name) == table

\* the rows of a table that belong to one commodity, in table order
GroupOf(table, name) ==
    SelectSeq(table, LAMBDA r : r.Market_and_Exchange_Names = name)

\* the group keys of a table, in sort order
GroupKeys(table) ==
    SelectSeq(common_commodities,
              LAMBDA name : \E p \in 1..Len(table) : table[p].Market_and_Exchange_Names = name)

\* ------------------------------------------------------------------------
\* State
\* ------------------------------------------------------------------------
VARIABLES
    df,               \* the filtered, sorted report table (lines 74-80)
    pc,               \* position of the script
    pending,          \* group keys groupby().apply has still to visit
    df_commodity,     \* the group inside calculate_cot_metrics
    i,                \* loop index of line 105 (1-based)
    cur_mask,         \* rows selected by the date mask in the last iteration
    cur_hist,         \* rows of historical_values in the last iteration
    processed_df,     \* line 139
    current_data_df,  \* line 142
    latest_alerts,    \* line 145
    handed,           \* the group object apply passed to calculate_cot_metrics
    rerun,            \* TRUE once Streamlit has executed the script again
    prev_processed,   \* processed_df of the execution before
    prev_latest       \* latest_alerts of the execution before

\* the table extractor page (src/pages/2_JPEG_Table_Extractor.py)
VARIABLES
    uploaded_files,   \* line 47: what happens to each uploaded file, in upload order
    file_i,           \* files the loop of line 106 has finished
    results,          \* line 104
    extracted_data,   \* st.session_state.extracted_data
    page_pc           \* position of the page script

\* the volatility collector (src/cron/App3_cron/App3_data_collector.py)
VARIABLES
    csv_file,         \* OUTPUT_FILE: whether it exists, and its data lines
    csv_before,       \* the file when the run started
    runs,             \* runs of main() started so far
    all_options,      \* line 86
    opt_i,            \* options of the run already asked for their ticker
    summary,          \* line 47: the last ticker answer
    all_iv_data,      \* line 95
    main_pc           \* position of main()

dashboard_vars == <<df, pc, pending, df_commodity, i, cur_mask, cur_hist,
                    processed_df, current_data_df, latest_alerts,
                    handed, rerun, prev_processed, prev_latest>>
extractor_vars == <<uploaded_files, file_i, results, extracted_data, page_pc>>
collector_vars == <<csv_file, csv_before, runs, all_options, opt_i, summary,
                    all_iv_data, main_pc>>
vars == <<dashboard_vars, extractor_vars, collector_vars>>

\* the extractor page before any upload
ExtractorIdle ==
    /\ uploaded_files = <<>>
    /\ file_i = 0
    /\ results = <<>>
    /\ extracted_data = <<>>
    /\ page_pc = "idle"

\* the collector between two cron runs, with no file written yet
CollectorIdle ==
    /\ csv_file = [exists |-> FALSE, rows |-> <<>>]
    /\ csv_before = csv_file
    /\ runs = 0
    /\ all_options = <<>>
    /\ opt_i = 0
    /\ summary = [kind |-> "none", mark_iv |-> [t |-> "None", s |-> ""]]
    /\ all_iv_data = <<>>
    /\ main_pc = "idle"

\* The table after loading, filtering and sorting: between 1 and MaxRecs
\* rows, one per (commodity, report date), sorted by commodity and date.
Init ==
    /\ \E ks \in SUBSET Keys :
         /\ Cardinality(ks) \in 1..MaxRecs
         /\ \E cells \in [1..Cardinality(ks) -> RawRows] :
              df = [p \in 1..Cardinality(ks) |-> RawRecord(SortedKeys(ks)[p], cells[p])]
    /\ pc = "apply"
    /\ pending = GroupKeys(df)
    /\ df_commodity = <<>>
    /\ i = 0
    /\ cur_mask = {}
    /\ cur_hist = {}
    /\ processed_df = <<>>
    /\ current_data_df = <<>>
    /\ latest_alerts = <<>>
    /\ handed = <<>>
    /\ rerun = FALSE
    /\ prev_processed = <<>>
    /\ prev_latest = <<>>
    /\ ExtractorIdle
    /\ CollectorIdle

\* groupby().apply hands the next group to calculate_cot_metrics, which
\* runs lines 89-103
EnterGroup ==
    /\ pc = "apply"
    /\ pending # <<>>
    /\ handed' = CoerceInPlace(GroupOf(df, Head(pending)))
    /\ df_commodity' = sort_values(handed')
    /\ pc' = IF HasRaised(df_commodity') THEN "raised" ELSE "rank"
    /\ i' = 1
    /\ cur_mask' = {}
    /\ cur_hist' = {}
    /\ UNCHANGED <<df, pending, processed_df, current_data_df, latest_alerts>>
    /\ UNCHANGED <<rerun, prev_processed, prev_latest, extractor_vars, collector_vars>>

\* one iteration of the loop of lines 105-123
RankStep ==
    /\ pc = "rank"
    /\ i <= Len(df_commodity)
    /\ cur_mask' = window_mask(df_commodity, i)
    /\ cur_hist' = historical_values(df_commodity, i)
    /\ df_commodity' = [df_commodity EXCEPT ![i].Percentile_Rank = rank_of(df_commodity, i)]
    /\ i' = i + 1
    /\ pc' = IF i = Len(df_commodity) THEN "flag" ELSE "rank"
    /\ UNCHANGED <<df, pending, processed_df, current_data_df, latest_alerts>>
    /\ UNCHANGED <<handed, rerun, prev_processed, prev_latest, extractor_vars, collector_vars>>

\* lines 125-136, and apply collecting the returned group
FlagAndReturn ==
    /\ pc = "flag"
    /\ processed_df' = processed_df \o
           [p \in 1..Len(df_commodity) |-> FlagRow(df_commodity, p)]
    /\ pending' = Tail(pending)
    /\ pc' = IF Tail(pending) = <<>> THEN "filter" ELSE "apply"
    /\ df_commodity' = <<>>
    /\ i' = 0
    /\ cur_mask' = {}
    /\ cur_hist' = {}
    /\ handed' = <<>>
    /\ UNCHANGED <<df, current_data_df, latest_alerts>>
    /\ UNCHANGED <<rerun, prev_processed, prev_latest, extractor_vars, collector_vars>>

\* line 142
FilterCurrent ==
    /\ pc = "filter"
    /\ current_data_df' = SelectSeq(processed_df, LAMBDA r : r.Report_Date >= start_current)
    /\ pc' = "latest"
    /\ UNCHANGED <<df, pending, df_commodity, i, cur_mask, cur_hist, processed_df, latest_alerts>>
    /\ UNCHANGED <<handed, rerun, prev_processed, prev_latest, extractor_vars, collector_vars>>

\* line 145
LatestAlerts ==
    /\ pc = "latest"
    /\ latest_alerts' =
           LET keys == GroupKeys(current_data_df)
           IN  [p \in 1..Len(keys) |-> group_last(GroupOf(current_data_df, keys[p]))]
    /\ pc' = "done"
    /\ UNCHANGED <<df, pending, df_commodity, i, cur_mask, cur_hist, processed_df, current_data_df>>
    /\ UNCHANGED <<handed, rerun, prev_processed, prev_latest, extractor_vars, collector_vars>>

Next ==
    \/ EnterGroup
    \/ RankStep
    \/ FlagAndReturn
    \/ FilterCurrent
    \/ LatestAlerts

Spec == Init /\ [][Next]_vars

\* ------------------------------------------------------------------------
\* Vocabulary of the properties
\* ------------------------------------------------------------------------
FloatEq(a, b) == a.k = "fin" /\ b.k = "fin" /\ a.n * b.d = b.n * a.d
SameFloat(a, b) == (isna(a) /\ isna(b)) \/ FloatEq(a, b)

\* a cell of the download that is null or no number
Malformed(c) == c.k \in {"none", "badstr"}
\* a cell of the download holding the number zero
IsZero(c) == c.k \in {"int", "numstr"} /\ c.v = 0

\* the report row of df a derived row was computed from
RawOf(r) ==
    CHOOSE p \in 1..Len(df) :
        /\ df[p].Market_and_Exchange_Names = r.Market_and_Exchange_Names
        /\ df[p].Report_Date = r.Report_Date

\* every derived row the script holds: the group in work and the result
DerivedRows ==
    {df_commodity[p] : p \in 1..Len(df_commodity)}
        \cup {processed_df[p] : p \in 1..Len(processed_df)}

\* rows of processed_df of the same commodity, dated in
\* [date - TrailingWindowDays, date), with a non-null ratio
TrailingValues(p) ==
    {q \in 1..Len(processed_df) :
        /\ processed_df[q].Market_and_Exchange_Names = processed_df[p].Market_and_Exchange_Names
        /\ processed_df[q].Report_Date >= processed_df[p].Report_Date - TrailingWindowDays
        /\ processed_df[q].Report_Date < processed_df[p].Report_Date
        /\ ~isna(processed_df[q].Net_Position_pct_OI)}

\* Percentile_Rank of row `at` of a group of report rows, as lines 89-123
\* compute it
RankIn(rows, at) == rank_of(PrepareGroup(rows), at)

RemoveAt(s, j) == SubSeq(s, 1, j - 1) \o SubSeq(s, j + 1, Len(s))

\* C1: a record with a non-null ratio and at least one non-null ratio in
\* its trailing window has percentile_rank = 100 * (number of window ratios
\* <= its own ratio) / (number of window ratios); ties count as <=.
Thm_C1_WeakPercentile ==
    \A p \in 1..Len(processed_df) :
        LET r == processed_df[p]
            W == TrailingValues(p)
            le == {q \in W : FloatLE(processed_df[q].Net_Position_pct_OI, r.Net_Position_pct_OI)}
        IN  (~isna(r.Net_Position_pct_OI) /\ W # {})
                => FloatEq(r.Percentile_Rank, Fin(100 * Cardinality(le), Cardinality(W)))

\* a record whose window holds a value equal to its own and a larger one:
\* the tie is counted, the larger value is not, the rank is 50
Wit_C1_TieCounted ==
    \E p \in 1..Len(processed_df) :
        LET r == processed_df[p]
            W == TrailingValues(p)
        IN  /\ ~isna(r.Net_Position_pct_OI)
            /\ \E q \in W : FloatEq(processed_df[q].Net_Position_pct_OI, r.Net_Position_pct_OI)
            /\ \E q \in W : FloatLT(r.Net_Position_pct_OI, processed_df[q].Net_Position_pct_OI)
            /\ FloatEq(r.Percentile_Rank, Fin(50, 1))

\* the report rows of a commodity, and the place of a date among them
RawGroup(name) == GroupOf(df, name)
PlaceOf(rows, date) == Cardinality({q \in 1..Len(rows) : rows[q].Report_Date <= date})

\* C2: no look-ahead.  When the script is through, the percentile_rank of a
\* record is what lines 89-123 compute for it when any one later record of
\* its commodity is removed or carries any other values, and when all later
\* records are removed; and the rows compared against in an iteration are
\* all dated before the record of the iteration.
Thm_C2_NoLookAhead ==
    /\ pc = "done" =>
         \A name \in Names :
            LET G == RawGroup(name)
                done == GroupOf(processed_df, name)
                Agree(alt, upto) ==
                    LET dfc == PrepareGroup(alt)
                    IN  \A at \in 1..upto :
                            SameFloat(rank_of(dfc, at), done[at].Percentile_Rank)
            IN  \A j \in 1..Len(G) :
                    /\ done[j].Report_Date = G[j].Report_Date
                    /\ Agree(SubSeq(G, 1, j), j)
                    /\ Agree(RemoveAt(G, j), j - 1)
                    /\ \A c \in RawRows :
                         Agree([G EXCEPT ![j] = RawRecord(<<name, G[j].Report_Date>>, c)], j - 1)
    /\ (pc \in {"rank", "flag"} /\ i > 1) =>
         \A j \in cur_mask \cup cur_hist :
            df_commodity[j].Report_Date < df_commodity[i - 1].Report_Date

\* a record with a non-null rank that is followed by a later record of the
\* same commodity whose ratio is non-null
Wit_C2_LaterRecord ==
    \E p, q \in 1..Len(processed_df) :
        /\ processed_df[p].Market_and_Exchange_Names = processed_df[q].Market_and_Exchange_Names
        /\ processed_df[p].Report_Date < processed_df[q].Report_Date
        /\ ~isna(processed_df[p].Percentile_Rank)
        /\ ~isna(processed_df[q].Net_Position_pct_OI)

\* C3: the rows selected by the date mask of an iteration are exactly the
\* rows of the group dated in [current_date - TrailingWindowDays,
\* current_date).
Thm_C3_WindowBounds ==
    (pc \in {"rank", "flag"} /\ i > 1) =>
        cur_mask = {j \in 1..Len(df_commodity) :
                      /\ df_commodity[i - 1].Report_Date - TrailingWindowDays
                            <= df_commodity[j].Report_Date
                      /\ df_commodity[j].Report_Date < df_commodity[i - 1].Report_Date}

\* an iteration whose mask holds a row dated exactly TrailingWindowDays
\* earlier and leaves out an older row
Wit_C3_Boundary ==
    /\ pc \in {"rank", "flag"}
    /\ i > 1
    /\ \E j \in cur_mask :
         df_commodity[j].Report_Date = df_commodity[i - 1].Report_Date - TrailingWindowDays
    /\ \E j \in 1..Len(df_commodity) :
         /\ j \notin cur_mask
         /\ df_commodity[j].Report_Date < df_commodity[i - 1].Report_Date - TrailingWindowDays

\* C4, as claimed: the ratio is null if and only if open interest is null,
\* zero or non-numeric.
Cex_C4_NullIffOpenInterest ==
    \A r \in DerivedRows :
        LET oi == df[RawOf(r)].Open_Interest_All
        IN  isna(r.Net_Position_pct_OI) <=> (Malformed(oi) \/ IsZero(oi))

\* C4, amended: the ratio is null if and only if open interest is null,
\* zero or non-numeric, or the long or the short count is null or
\* non-numeric; otherwise it is a finite number.
Thm_C4_NullIffAnyOperand ==
    \A r \in DerivedRows :
        LET raw == df[RawOf(r)]
            oi == raw.Open_Interest_All
        IN  /\ isna(r.Net_Position_pct_OI) <=>
                  \/ Malformed(oi) \/ IsZero(oi)
                  \/ Malformed(raw.M_Money_Positions_Long_All)
                  \/ Malformed(raw.M_Money_Positions_Short_All)
            /\ ~isna(r.Net_Position_pct_OI) => r.Net_Position_pct_OI.k = "fin"

\* a result row with a non-numeric long count, a valid non-zero open
\* interest and a null ratio
Wit_C4_BadLong ==
    \E p \in 1..Len(processed_df) :
        LET raw == df[RawOf(processed_df[p])]
        IN  /\ Malformed(raw.M_Money_Positions_Long_All)
            /\ raw.Open_Interest_All.k = "int" /\ raw.Open_Interest_All.v > 0
            /\ isna(processed_df[p].Net_Position_pct_OI)

\* C5: with open interest 0 the ratio is null (not infinite, not zero)
\* whatever the sign of long - short, and nothing is raised.
Thm_C5_ZeroOpenInterest ==
    /\ pc # "raised"
    /\ \A r \in DerivedRows :
         IsZero(df[RawOf(r)].Open_Interest_All) => r.Net_Position_pct_OI = NaN

NetOf(raw) == raw.M_Money_Positions_Long_All.v - raw.M_Money_Positions_Short_All.v

\* a result holding rows with open interest 0 and a positive, a negative
\* and a zero net position
Wit_C5_AllSigns ==
    /\ pc = "done"
    /\ \A sign \in {-1, 0, 1} :
         \E p \in 1..Len(processed_df) :
            LET raw == df[RawOf(processed_df[p])]
            IN  /\ IsZero(raw.Open_Interest_All)
                /\ ~Malformed(raw.M_Money_Positions_Long_All)
                /\ ~Malformed(raw.M_Money_Positions_Short_All)
                /\ NetOf(raw) = sign
                /\ isna(processed_df[p].Net_Position_pct_OI)

\* ------------------------------------------------------------------------
\* The flagging step on its own: the script at line 125 with a group of two
\* rows whose Percentile_Rank column holds any of the values of RankDomain
\* (whole percentages, the halves next to the two levels, NaN), as groups
\* with a longer history produce them.
\* ------------------------------------------------------------------------
RankDomain ==
    {NaN} \cup {Fin(n, 1) : n \in 0..100}
          \cup {Fin(n, 2) : n \in {19, 21, 179, 181}}

FlagInputRows == <<NumStr(2), IntCell(1), IntCell(1)>>

InitFlag ==
    /\ df = <<RawRecord(<<"CORN", 1096>>, FlagInputRows),
              RawRecord(<<"CORN", 1097>>, FlagInputRows)>>
    /\ pc = "flag"
    /\ pending = GroupKeys(df)
    /\ \E first \in RankDomain, second \in {NaN, Fin(OversoldLevel, 1), Fin(OverboughtLevel, 1)} :
         df_commodity = [PrepareGroup(df) EXCEPT ![1].Percentile_Rank = first,
                                                 ![2].Percentile_Rank = second]
    /\ i = 3
    /\ cur_mask = {1}
    /\ cur_hist = {1}
    /\ processed_df = <<>>
    /\ current_data_df = <<>>
    /\ latest_alerts = <<>>
    /\ handed = CoerceInPlace(df)
    /\ rerun = FALSE
    /\ prev_processed = <<>>
    /\ prev_latest = <<>>
    /\ ExtractorIdle
    /\ CollectorIdle

NextFlag ==
    \/ FlagAndReturn
    \/ FilterCurrent
    \/ LatestAlerts

SpecFlag == InitFlag /\ [][NextFlag]_vars

\* C6: Alert is Overbought iff percentile_rank >= 90 and Oversold iff
\* percentile_rank <= 10; no row is both, every row is exactly one of
\* Overbought, Oversold, Neutral.
Thm_C6_AlertIffThreshold ==
    \A p \in 1..Len(processed_df) :
        LET r == processed_df[p]
            pr == r.Percentile_Rank
            high == pr.k = "fin" /\ pr.n >= 90 * pr.d
            low == pr.k = "fin" /\ pr.n <= 10 * pr.d
        IN  /\ r.Alert \in {"Overbought", "Oversold", "Gray: Neutral"}
            /\ r.Alert = "Overbought" <=> high
            /\ r.Alert = "Oversold" <=> low
            /\ ~(high /\ low)

\* a result with a row at exactly 90 flagged Overbought and a row at
\* exactly 10 flagged Oversold
Wit_C6_AtLevels ==
    \E p, q \in 1..Len(processed_df) :
        /\ processed_df[p].Percentile_Rank = Fin(90, 1)
        /\ processed_df[p].Alert = "Overbought"
        /\ processed_df[q].Percentile_Rank = Fin(10, 1)
        /\ processed_df[q].Alert = "Oversold"

\* C7: a record whose trailing window holds no non-null ratio has a null
\* percentile_rank, and every record with a null percentile_rank is Neutral.
Thm_C7_EmptyWindowNeutral ==
    \A p \in 1..Len(processed_df) :
        /\ TrailingValues(p) = {} => isna(processed_df[p].Percentile_Rank)
        /\ isna(processed_df[p].Percentile_Rank) => processed_df[p].Alert = "Gray: Neutral"

\* a record with a non-null ratio and an earlier record inside its date
\* window, all of them with a null ratio: null rank, Neutral
Wit_C7_WindowOfNulls ==
    \E p, q \in 1..Len(processed_df) :
        /\ processed_df[q].Market_and_Exchange_Names = processed_df[p].Market_and_Exchange_Names
        /\ processed_df[q].Report_Date < processed_df[p].Report_Date
        /\ processed_df[q].Report_Date >= processed_df[p].Report_Date - TrailingWindowDays
        /\ TrailingValues(p) = {}
        /\ ~isna(processed_df[p].Net_Position_pct_OI)
        /\ isna(processed_df[p].Percentile_Rank)
        /\ processed_df[p].Alert = "Gray: Neutral"

\* C8: a record whose own ratio is null has a null percentile_rank, whatever
\* its window holds.
Thm_C8_NullCurrentValue ==
    /\ \A r \in DerivedRows : isna(r.Net_Position_pct_OI) => isna(r.Percentile_Rank)
    /\ \A p \in 1..Len(processed_df) :
         isna(processed_df[p].Net_Position_pct_OI) => isna(processed_df[p].Percentile_Rank)

\* a record with a null ratio whose window holds two non-null ratios
Wit_C8_NullAgainstHistory ==
    \E p \in 1..Len(processed_df) :
        /\ isna(processed_df[p].Net_Position_pct_OI)
        /\ Cardinality(TrailingValues(p)) >= 2
        /\ isna(processed_df[p].Percentile_Rank)

\* C9: a non-numeric or missing long, short or open-interest cell becomes
\* null and nothing is raised; and when the script is through, every record
\* has the percentile_rank that lines 89-123 compute for it on its group
\* without any one record whose ratio is null.
Thm_C9_NullRowHarmless ==
    /\ pc # "raised"
    /\ \A r \in DerivedRows :
         LET raw == df[RawOf(r)]
         IN  /\ Malformed(raw.M_Money_Positions_Long_All) => isna(r.M_Money_Positions_Long_All)
             /\ Malformed(raw.M_Money_Positions_Short_All) => isna(r.M_Money_Positions_Short_All)
             /\ Malformed(raw.Open_Interest_All) => isna(r.Open_Interest_All)
    /\ pc = "done" =>
         \A p, j \in 1..Len(processed_df) :
            LET r == processed_df[p]
                bad == processed_df[j]
                G == RawGroup(r.Market_and_Exchange_Names)
                at == PlaceOf(G, r.Report_Date)
                out == PlaceOf(G, bad.Report_Date)
            IN  (/\ p # j
                 /\ bad.Market_and_Exchange_Names = r.Market_and_Exchange_Names
                 /\ isna(bad.Net_Position_pct_OI))
                    => SameFloat(RankIn(RemoveAt(G, out), IF at < out THEN at ELSE at - 1),
                                 r.Percentile_Rank)

\* a finished run with a record whose long, short or open-interest cell is
\* non-numeric or missing, inside the date window of a later record that
\* has a non-null rank
Wit_C9_BadRowInWindow ==
    /\ pc = "done"
    /\ \E p, j \in 1..Len(processed_df) :
         LET raw == df[RawOf(processed_df[j])]
         IN  /\ processed_df[j].Market_and_Exchange_Names = processed_df[p].Market_and_Exchange_Names
             /\ processed_df[j].Report_Date < processed_df[p].Report_Date
             /\ processed_df[j].Report_Date >= processed_df[p].Report_Date - TrailingWindowDays
             /\ \/ Malformed(raw.M_Money_Positions_Long_All)
                \/ Malformed(raw.M_Money_Positions_Short_All)
                \/ Malformed(raw.Open_Interest_All)
             /\ isna(processed_df[j].Net_Position_pct_OI)
             /\ ~isna(processed_df[p].Percentile_Rank)

\* C10, as claimed: every row of latest_alerts is the record of its
\* commodity with the latest report date: ratio, percentile, alert and
\* trend are those of that one record.
Cex_C10_LatestIsOneRecord ==
    pc = "done" =>
        \A a \in 1..Len(latest_alerts) :
            \E p \in 1..Len(processed_df) :
                LET r == processed_df[p]
                    row == latest_alerts[a]
                IN  /\ r.Market_and_Exchange_Names = row.Market_and_Exchange_Names
                    /\ \A q \in 1..Len(processed_df) :
                         processed_df[q].Market_and_Exchange_Names = r.Market_and_Exchange_Names
                            => processed_df[q].Report_Date <= r.Report_Date
                    /\ row.Report_Date = r.Report_Date
                    /\ row.Net_Position_pct_OI = r.Net_Position_pct_OI
                    /\ row.Percentile_Rank = r.Percentile_Rank
                    /\ row.Alert = r.Alert
                    /\ row.Trend = r.Trend

\* the rows of processed_df of the same commodity dated before row p, and
\* the latest of them
EarlierRows(p) ==
    {q \in 1..Len(processed_df) :
        /\ processed_df[q].Market_and_Exchange_Names = processed_df[p].Market_and_Exchange_Names
        /\ processed_df[q].Report_Date < processed_df[p].Report_Date}
PrecedingRow(p) ==
    CHOOSE q \in EarlierRows(p) :
        \A o \in EarlierRows(p) : processed_df[o].Report_Date <= processed_df[q].Report_Date

\* C11: Trend is Up iff the ratio is strictly greater than the ratio of the
\* immediately preceding record of the commodity, Down iff strictly less,
\* and empty (flat or unknown) otherwise: equal values, a null on either
\* side, the first record of a commodity.
Thm_C11_Trend ==
    \A p \in 1..Len(processed_df) :
        LET r == processed_df[p]
            cur == r.Net_Position_pct_OI
            first == EarlierRows(p) = {}
            prior == IF first THEN NaN ELSE processed_df[PrecedingRow(p)].Net_Position_pct_OI
            up == cur.k = "fin" /\ prior.k = "fin" /\ cur.n * prior.d > prior.n * cur.d
            down == cur.k = "fin" /\ prior.k = "fin" /\ cur.n * prior.d < prior.n * cur.d
        IN  /\ r.Trend \in {"Up", "Down", ""}
            /\ r.Trend = "Up" <=> up
            /\ r.Trend = "Down" <=> down
            /\ (first \/ isna(cur) \/ isna(prior)) => r.Trend = ""

\* a commodity whose second record rises above the first and whose third
\* falls below the second: empty, Up, Down
Wit_C11_UpThenDown ==
    \E p, q, o \in 1..Len(processed_df) :
        /\ EarlierRows(p) = {}
        /\ EarlierRows(q) # {} /\ PrecedingRow(q) = p
        /\ EarlierRows(o) # {} /\ PrecedingRow(o) = q
        /\ processed_df[p].Trend = ""
        /\ processed_df[q].Trend = "Up"
        /\ processed_df[o].Trend = "Down"

\* ------------------------------------------------------------------------
\* Executing the dashboard script again
\* ------------------------------------------------------------------------
\* an execution that keeps the result table of the execution before and
\* lets apply add to it
Rerun_accumulate ==
    /\ pc = "done"
    /\ prev_processed' = processed_df
    /\ prev_latest' = latest_alerts
    /\ rerun' = TRUE
    /\ pc' = "apply"
    /\ pending' = GroupKeys(df)
    /\ UNCHANGED <<df, df_commodity, i, cur_mask, cur_hist, handed,
                   processed_df, current_data_df, latest_alerts>>
    /\ UNCHANGED <<extractor_vars, collector_vars>>

\* Streamlit executes the script from the top on every interaction: line 12
\* starts from an empty frame, lines 29-80 load and filter the same reports
\* again, and lines 139-145 bind the three tables anew
Rerun ==
    /\ pc = "done"
    /\ prev_processed' = processed_df
    /\ prev_latest' = latest_alerts
    /\ rerun' = TRUE
    /\ pc' = "apply"
    /\ pending' = GroupKeys(df)
    /\ processed_df' = <<>>
    /\ current_data_df' = <<>>
    /\ latest_alerts' = <<>>
    /\ UNCHANGED <<df, df_commodity, i, cur_mask, cur_hist, handed>>
    /\ UNCHANGED <<extractor_vars, collector_vars>>

NextRerun ==
    \/ EnterGroup
    \/ RankStep
    \/ FlagAndReturn
    \/ FilterCurrent
    \/ LatestAlerts
    \/ Rerun

SpecRerun == Init /\ [][NextRerun]_vars

ScoreDomain == {Fin(n, 1) : n \in {-100, -50, 0, 100, 150}}

\* C13: against one non-empty window the percentile rank is monotonic in
\* the score: A > B implies percentileofscore(A) >= percentileofscore(B).
Thm_C13_Monotonic ==
    (pc \in {"rank", "flag"} /\ cur_hist # {}) =>
        \A a, b \in ScoreDomain :
            FloatGT(a, b) =>
                FloatLE(percentileofscore(df_commodity, cur_hist, b),
                        percentileofscore(df_commodity, cur_hist, a))

\* a window of two different ratios: some pair of scores ranks strictly
\* apart, another pair ranks the same
Wit_C13_TwoValueWindow ==
    /\ pc \in {"rank", "flag"}
    /\ Cardinality(cur_hist) = 2
    /\ \E j, o \in cur_hist :
         FloatLT(df_commodity[j].Net_Position_pct_OI, df_commodity[o].Net_Position_pct_OI)
    /\ \E a, b \in ScoreDomain :
         /\ FloatGT(a, b)
         /\ FloatLT(percentileofscore(df_commodity, cur_hist, b),
                    percentileofscore(df_commodity, cur_hist, a))
    /\ \E a, b \in ScoreDomain :
         /\ FloatGT(a, b)
         /\ FloatEq(percentileofscore(df_commodity, cur_hist, b),
                    percentileofscore(df_commodity, cur_hist, a))

\* Percentile_Rank is a number between 0 and 100
InUnitRange(pr) == pr.k = "fin" /\ pr.n >= 0 /\ pr.n <= 100 * pr.d

\* C14 as stated: every record with a non-empty trailing window has a
\* percentile rank in [0, 100].
Cex_C14_NonEmptyWindowInRange ==
    \A p \in 1..Len(processed_df) :
        TrailingValues(p) # {} => InUnitRange(processed_df[p].Percentile_Rank)

\* C14: every record with a non-null ratio and at least one non-null ratio
\* in its trailing window has a percentile rank in [0, 100]; a record with
\* a null ratio has a null percentile rank even when its window is not
\* empty.
Thm_C14_RankInRange ==
    \A p \in 1..Len(processed_df) :
        TrailingValues(p) # {} =>
            IF isna(processed_df[p].Net_Position_pct_OI)
            THEN isna(processed_df[p].Percentile_Rank)
            ELSE InUnitRange(processed_df[p].Percentile_Rank)

\* a record ranked at 100 against its window, and a later record with a
\* null ratio and a window of two values
Wit_C14_RankedAndNull ==
    \E p, q \in 1..Len(processed_df) :
        /\ TrailingValues(p) # {}
        /\ FloatEq(processed_df[p].Percentile_Rank, Fin(100, 1))
        /\ Cardinality(TrailingValues(q)) = 2
        /\ isna(processed_df[q].Net_Position_pct_OI)

\* ------------------------------------------------------------------------
\* The frame calculate_cot_metrics is handed
\* ------------------------------------------------------------------------
\* a cell of the handed frame still holds what the download held: the same
\* number (as a number or as its text), or null for null
SameCell(c, x) ==
    \/ c.k \in {"int", "numstr"} /\ x = Fin(c.v, 1)
    \/ c.k = "none" /\ isna(x)

\* C15 as stated: calculate_cot_metrics leaves the raw fields of the
\* records it is handed unchanged: while the function runs, long, short
\* and open interest of every handed record are what they were at the
\* call.
Cex_C15_HandedRawUnchanged ==
    pc \in {"rank", "flag"} =>
        LET given == GroupOf(df, Head(pending))
        IN  /\ Len(handed) = Len(given)
            /\ \A p \in 1..Len(given) :
                 /\ SameCell(given[p].M_Money_Positions_Long_All,
                             handed[p].M_Money_Positions_Long_All)
                 /\ SameCell(given[p].M_Money_Positions_Short_All,
                             handed[p].M_Money_Positions_Short_All)
                 /\ SameCell(given[p].Open_Interest_All,
                             handed[p].Open_Interest_All)

\* ------------------------------------------------------------------------
\* The engine on one group, as a function
\* ------------------------------------------------------------------------
\* lines 89-123: the prepared group with every Percentile_Rank the loop
\* assigns
RankedGroup(rows) ==
    LET dfc == PrepareGroup(rows)
    IN  AsTuple([p \in 1..Len(dfc) |-> [dfc[p] EXCEPT !.Percentile_Rank = rank_of(dfc, p)]])

\* lines 84-136: what calculate_cot_metrics returns for a group
calculate_cot_metrics(rows) ==
    LET dfc == RankedGroup(rows)
    IN  AsTuple([p \in 1..Len(dfc) |-> FlagRow(dfc, p)])

\* the reports of one commodity in a table, and its rows in the result
ReportsOf(name) == SelectSeq(df, LAMBDA r : r.Market_and_Exchange_Names = name)
ResultOf(name) == SelectSeq(processed_df, LAMBDA r : r.Market_and_Exchange_Names = name)

\* C16: the derived fields of the records of a commodity do not depend on
\* the records of other commodities: the rows of a commodity in the result
\* of the whole table are the rows the engine returns for the reports of
\* that commodity alone, whatever else the table holds and whichever group
\* was processed first.
Thm_C16_GroupsIndependent ==
    pc = "done" =>
        \A name \in Names :
            ResultOf(name) =
                IF ReportsOf(name) = <<>> THEN <<>>
                ELSE calculate_cot_metrics(ReportsOf(name))

\* a finished table of two commodities, one of them with a ranked record
Wit_C16_TwoCommodities ==
    /\ pc = "done"
    /\ \A name \in Names : ReportsOf(name) # <<>>
    /\ \E p \in 1..Len(processed_df) : ~isna(processed_df[p].Percentile_Rank)

\* ------------------------------------------------------------------------
\* The rows of latest_alerts
\* ------------------------------------------------------------------------
\* C17 as stated: in every row of latest_alerts the Alert agrees with the
\* Percentile_Rank of the same row: Overbought iff the rank is >= 90,
\* Oversold iff it is <= 10, Neutral iff it is null or strictly between.
Cex_C17_AlertMatchesShownRank ==
    pc = "done" =>
        \A a \in 1..Len(latest_alerts) :
            LET row == latest_alerts[a]
                pr == row.Percentile_Rank
                high == pr.k = "fin" /\ pr.n >= OverboughtLevel * pr.d
                low == pr.k = "fin" /\ pr.n <= OversoldLevel * pr.d
            IN  /\ row.Alert = "Overbought" <=> high
                /\ row.Alert = "Oversold" <=> low
                /\ row.Alert = "Gray: Neutral" <=> (~high /\ ~low)

\* ------------------------------------------------------------------------
\* The table extractor page (src/pages/2_JPEG_Table_Extractor.py)
\* ------------------------------------------------------------------------
MaxFiles == 3

\* Python values the handler passes around
None == [t |-> "None", s |-> ""]
Str(text) == [t |-> "str", s |-> text]
DataFrame(text) == [t |-> "DataFrame", s |-> text]
\* bool(v) of None or a string
Truthy(v) == v.t = "str" /\ v.s # ""

\* what can happen to an uploaded file: reading it raises; the API call
\* raises, with a message or with an empty str(e); the reply has no
\* content; the reply is text that parses, that does not parse, or that is
\* blank
FileOutcomes ==
    {"read_error", "api_error", "api_error_no_message", "no_content",
     "csv", "bad_csv", "blank"}

UploadedFile(n, outcome) == [name |-> n, outcome |-> outcome]

\* line 54: the base64 text, or the exception of uploaded_file.read()
encode_image(uploaded_file) ==
    IF uploaded_file.outcome = "read_error"
    THEN [raised |-> TRUE, value |-> Str("read failed")]
    ELSE [raised |-> FALSE, value |-> Str("base64")]

\* str.strip() of the reply
strip(text) == IF text = "  " THEN "" ELSE text

\* lines 56-93: the pair (extracted_csv, error)
extract_table(uploaded_file) ==
    CASE uploaded_file.outcome = "api_error" -> <<None, Str("Connection error.")>>
      [] uploaded_file.outcome = "api_error_no_message" -> <<None, Str("")>>
      [] uploaded_file.outcome = "no_content" ->
            <<None, Str("'NoneType' object has no attribute 'strip'")>>
      [] uploaded_file.outcome = "csv" -> <<Str(strip("a,b\n1,2")), None>>
      [] uploaded_file.outcome = "bad_csv" -> <<Str(strip("a,b\n1,2\n1,2,3")), None>>
      [] OTHER -> <<Str(strip("  ")), None>>

\* pd.read_csv(StringIO(text)): StringIO(None) is an empty buffer, an
\* empty buffer has no columns to parse, a line with more fields than the
\* header cannot be tokenized
read_csv_text(v) ==
    IF v = None \/ v.s = "" THEN [raised |-> TRUE, value |-> Str("No columns to parse from file")]
    ELSE IF v.s = "a,b\n1,2\n1,2,3"
    THEN [raised |-> TRUE, value |-> Str("Error tokenizing data")]
    ELSE [raised |-> FALSE, value |-> DataFrame(v.s)]

Entry(uploaded_file, status, message, data) ==
    [filename |-> uploaded_file.name, status |-> status, message |-> message, data |-> data]

\* lines 110-147: the entry one pass of the loop appends
ResultFor(uploaded_file) ==
    IF encode_image(uploaded_file).raised
    THEN Entry(uploaded_file, "Error", encode_image(uploaded_file).value, None)
    ELSE LET extracted_csv == extract_table(uploaded_file)[1]
             error == extract_table(uploaded_file)[2]
         IN  IF Truthy(error)
             THEN Entry(uploaded_file, "Error", error, None)
             ELSE IF read_csv_text(extracted_csv).raised
                  THEN Entry(uploaded_file, "Partial Success",
                             read_csv_text(extracted_csv).value, extracted_csv)
                  ELSE Entry(uploaded_file, "Success", Str("Extracted rows"),
                             read_csv_text(extracted_csv).value)

\* the page with between 0 and MaxFiles files in the uploader
InitExtract ==
    /\ \E n \in 0..MaxFiles :
         \E outcomes \in [1..n -> FileOutcomes] :
            uploaded_files = [p \in 1..n |-> UploadedFile(p, outcomes[p])]
    /\ file_i = 0
    /\ results = <<>>
    /\ extracted_data = <<>>
    /\ page_pc = "ready"
    /\ df = <<>>
    /\ pc = "off"
    /\ pending = <<>>
    /\ df_commodity = <<>>
    /\ i = 0
    /\ cur_mask = {}
    /\ cur_hist = {}
    /\ processed_df = <<>>
    /\ current_data_df = <<>>
    /\ latest_alerts = <<>>
    /\ handed = <<>>
    /\ rerun = FALSE
    /\ prev_processed = <<>>
    /\ prev_latest = <<>>
    /\ CollectorIdle

\* lines 96-104: the button is clicked with files in the uploader
ClickExtract ==
    /\ page_pc \in {"ready", "stored"}
    /\ uploaded_files # <<>>
    /\ results' = <<>>
    /\ file_i' = 0
    /\ page_pc' = "loop"
    /\ UNCHANGED <<uploaded_files, extracted_data, dashboard_vars, collector_vars>>

\* one pass of the loop of lines 106-147
ProcessFile ==
    /\ page_pc = "loop"
    /\ file_i < Len(uploaded_files)
    /\ results' = Append(results, ResultFor(uploaded_files[file_i + 1]))
    /\ file_i' = file_i + 1
    /\ UNCHANGED <<uploaded_files, extracted_data, page_pc, dashboard_vars, collector_vars>>

\* line 150
StoreResults ==
    /\ page_pc = "loop"
    /\ file_i = Len(uploaded_files)
    /\ extracted_data' = results
    /\ page_pc' = "stored"
    /\ UNCHANGED <<uploaded_files, file_i, results, dashboard_vars, collector_vars>>

NextExtract ==
    \/ ClickExtract
    \/ ProcessFile
    \/ StoreResults

SpecExtract == InitExtract /\ [][NextExtract]_vars

\* C18 as stated: after a run over n files the stored list has n entries
\* in upload order, one per file, each with status Success, Partial
\* Success or Error, and an entry has data iff its status is not Error.
Cex_C18_DataIffNotError ==
    page_pc = "stored" =>
        /\ Len(extracted_data) = Len(uploaded_files)
        /\ \A p \in 1..Len(extracted_data) :
             /\ extracted_data[p].filename = uploaded_files[p].name
             /\ extracted_data[p].status \in {"Success", "Partial Success", "Error"}
             /\ extracted_data[p].data # None <=> extracted_data[p].status # "Error"

\* ------------------------------------------------------------------------
\* The volatility collector (src/cron/App3_cron/App3_data_collector.py)
\* ------------------------------------------------------------------------
MaxOptions == 2
MaxRuns == 2

\* numbers of the JSON answers, in halves: 60 is an int, 60.0 and 60.5 are
\* floats
IntNum(v) == [t |-> "int", h |-> 2 * v]
FloatNum(h) == [t |-> "float", h |-> h]

\* a number as a CSV field: the halves, written with or without a decimal
\* point
Field(dec, h) == [dec |-> dec, h |-> h]

\* the k-th instrument public/get_instruments lists
Instrument(k) ==
    [instrument_name |-> k,
     expiration_timestamp |-> IF k % 2 = 1 THEN 2 ELSE 1,
     option_type |-> IF k <= 2 THEN "put" ELSE "call",
     strike |-> FloatNum(2 * k)]

\* what public/get_instruments can give fetch_instruments (lines 17-31):
\* a request error (None), an empty list, or the first n instruments
FetchResults ==
    {[ok |-> FALSE, list |-> <<>>], [ok |-> TRUE, list |-> <<>>]}
        \cup {[ok |-> TRUE, list |-> [k \in 1..n |-> Instrument(k)]] : n \in 1..MaxOptions}

\* what public/ticker can answer (lines 47-51): a request error, no result,
\* or a result whose mark_iv is null or a number
Answer(kind, iv) == [kind |-> kind, mark_iv |-> iv]
TickerAnswers ==
    {Answer("request_error", None), Answer("no_result", None)}
        \cup {Answer("result", iv) :
                iv \in {None, IntNum(0), FloatNum(-1), IntNum(60), FloatNum(121)}}

\* lines 91-106: the order in which main asks for the options: expiries
\* ascending, calls before puts within an expiry, list order within those
AskedBefore(a, b, pa, pb) ==
    \/ a.expiration_timestamp < b.expiration_timestamp
    \/ /\ a.expiration_timestamp = b.expiration_timestamp
       /\ \/ a.option_type = "call" /\ b.option_type = "put"
          \/ a.option_type = b.option_type /\ pa < pb

AskOrder(options) ==
    AsTuple([p \in 1..Len(options) |->
        options[CHOOSE j \in 1..Len(options) :
            Cardinality({o \in 1..Len(options) :
                AskedBefore(options[o], options[j], o, j)}) = p - 1]])

\* line 52 with `iv >= 0`
iv_accepted_zero(answer) ==
    /\ answer.kind = "result"
    /\ answer.mark_iv # None
    /\ answer.mark_iv.h >= 0

\* lines 49-52: the answer has a result with mark_iv not None and > 0
iv_accepted(answer) ==
    /\ answer.kind = "result"
    /\ answer.mark_iv # None
    /\ answer.mark_iv.h > 0

\* lines 53-61: the dictionary appended for an option
IvRow(opt, iv, now) ==
    [timestamp |-> now,
     expiry_timestamp |-> opt.expiration_timestamp,
     strike |-> opt.strike,
     implied_volatility |-> iv,
     option_type |-> opt.option_type,
     instrument_name |-> opt.instrument_name]

\* dtype of a column of pd.DataFrame(data): int64 if every value is an
\* int, float64 otherwise
FrameDtype(data, col) ==
    IF \A p \in 1..Len(data) : data[p][col].t = "int" THEN "int64" ELSE "float64"

\* dtype pd.read_csv infers for a column: int64 if no field has a decimal
\* point, float64 otherwise
ReadDtype(rows, col) ==
    IF \A p \in 1..Len(rows) : ~rows[p][col].dec THEN "int64" ELSE "float64"

\* dtype of the column after pd.concat
ConcatDtype(a, b) == IF a = "int64" /\ b = "int64" THEN "int64" ELSE "float64"

\* to_csv: a value of an int64 column is written without a decimal point,
\* a value of a float64 column with one
Render(dtype, h) == Field(dtype = "float64", h)

\* a line of the file with its two numeric fields written under the dtypes
\* of their columns
Line(r, strike_h, iv_h, strike_dtype, iv_dtype) ==
    [r EXCEPT !.strike = Render(strike_dtype, strike_h),
              !.implied_volatility = Render(iv_dtype, iv_h)]

\* lines 67-76: the file after save_to_csv(data, filename)
save_to_csv(data, file) ==
    LET strike_dtype ==
            IF file.exists
            THEN ConcatDtype(ReadDtype(file.rows, "strike"), FrameDtype(data, "strike"))
            ELSE FrameDtype(data, "strike")
        iv_dtype ==
            IF file.exists
            THEN ConcatDtype(ReadDtype(file.rows, "implied_volatility"),
                             FrameDtype(data, "implied_volatility"))
            ELSE FrameDtype(data, "implied_volatility")
        existing_df == IF file.exists THEN file.rows ELSE <<>>
    IN  [exists |-> TRUE,
         rows |->
            AsTuple([p \in 1..Len(existing_df) |->
                Line(existing_df[p], existing_df[p].strike.h,
                     existing_df[p].implied_volatility.h, strike_dtype, iv_dtype)])
            \o AsTuple([p \in 1..Len(data) |->
                Line(data[p], data[p].strike.h, data[p].implied_volatility.h,
                     strike_dtype, iv_dtype)])]

\* cron has not started the collector yet and no file exists
InitCollector ==
    /\ CollectorIdle
    /\ ExtractorIdle
    /\ df = <<>>
    /\ pc = "off"
    /\ pending = <<>>
    /\ df_commodity = <<>>
    /\ i = 0
    /\ cur_mask = {}
    /\ cur_hist = {}
    /\ processed_df = <<>>
    /\ current_data_df = <<>>
    /\ latest_alerts = <<>>
    /\ handed = <<>>
    /\ rerun = FALSE
    /\ prev_processed = <<>>
    /\ prev_latest = <<>>

\* lines 78-95: a run starts and fetches the instrument list; None or an
\* empty list end the run at line 88
StartRun ==
    /\ main_pc \in {"idle", "returned"}
    /\ runs < MaxRuns
    /\ runs' = runs + 1
    /\ csv_before' = csv_file
    /\ \E fetched \in FetchResults :
         /\ all_options' = fetched
         /\ main_pc' = IF fetched.list = <<>> THEN "returned" ELSE "collect"
    /\ opt_i' = 0
    /\ summary' = Answer("none", None)
    /\ all_iv_data' = <<>>
    /\ UNCHANGED <<csv_file, dashboard_vars, extractor_vars>>

\* one pass of the loop of lines 45-64 for the next option in the order of
\* lines 96-109
AskTicker ==
    /\ main_pc = "collect"
    /\ opt_i < Len(all_options.list)
    /\ \E answer \in TickerAnswers :
         /\ summary' = answer
         /\ all_iv_data' =
                IF iv_accepted(answer)
                THEN Append(all_iv_data,
                            IvRow(AskOrder(all_options.list)[opt_i + 1], answer.mark_iv, runs))
                ELSE all_iv_data
    /\ opt_i' = opt_i + 1
    /\ UNCHANGED <<csv_file, csv_before, runs, all_options, main_pc,
                   dashboard_vars, extractor_vars>>

\* lines 111-118
SaveAndReturn ==
    /\ main_pc = "collect"
    /\ opt_i = Len(all_options.list)
    /\ csv_file' = IF all_iv_data # <<>> THEN save_to_csv(all_iv_data, csv_file) ELSE csv_file
    /\ main_pc' = "returned"
    /\ UNCHANGED <<csv_before, runs, all_options, opt_i, summary, all_iv_data,
                   dashboard_vars, extractor_vars>>

NextCollector ==
    \/ StartRun
    \/ AskTicker
    \/ SaveAndReturn

SpecCollector == InitCollector /\ [][NextCollector]_vars

\* the lines of the file that the run added
NewLines == SubSeq(csv_file.rows, Len(csv_before.rows) + 1, Len(csv_file.rows))

\* C19 as stated: after a save the file holds the lines it held before,
\* unchanged and in the same order, followed by the new rows in their
\* order.
Cex_C19_AppendOnly ==
    main_pc = "returned" =>
        /\ Len(csv_file.rows) >= Len(csv_before.rows)
        /\ SubSeq(csv_file.rows, 1, Len(csv_before.rows)) = csv_before.rows
        /\ Len(NewLines) = Len(all_iv_data)
        /\ \A p \in 1..Len(NewLines) :
             /\ NewLines[p].instrument_name = all_iv_data[p].instrument_name
             /\ NewLines[p].implied_volatility.h = all_iv_data[p].implied_volatility.h

\* C20: a run that gets no instrument list, an empty list, or no option
\* with a positive mark_iv leaves the file as it was, not created and not
\* truncated; every row a run collects comes from an option of the list
\* whose ticker returned a mark_iv that is not null and > 0, at most one
\* row per option, and these are the rows the run writes.
Thm_C20_OnlyPositiveIv ==
    /\ (main_pc = "returned" /\ all_iv_data = <<>>) => csv_file = csv_before
    /\ main_pc = "collect" => csv_file = csv_before
    /\ \A p \in 1..Len(all_iv_data) :
         /\ all_iv_data[p].implied_volatility # None
         /\ all_iv_data[p].implied_volatility.h > 0
         /\ \E k \in 1..Len(all_options.list) :
              all_options.list[k].instrument_name = all_iv_data[p].instrument_name
         /\ \A q \in 1..Len(all_iv_data) :
              all_iv_data[q].instrument_name = all_iv_data[p].instrument_name => q = p
    /\ (main_pc = "collect" /\ opt_i > 0) =>
         LET asked == AskOrder(all_options.list)[opt_i]
             taken == /\ all_iv_data # <<>>
                      /\ all_iv_data[Len(all_iv_data)].instrument_name = asked.instrument_name
             positive == /\ summary.kind = "result"
                         /\ summary.mark_iv # None
                         /\ summary.mark_iv.h > 0
         IN  /\ taken <=> positive
             /\ taken => all_iv_data[Len(all_iv_data)].implied_volatility = summary.mark_iv
    /\ main_pc = "returned" =>
         /\ Len(csv_file.rows) = Len(csv_before.rows) + Len(all_iv_data)
         /\ \A p \in 1..Len(all_iv_data) :
              /\ NewLines[p].instrument_name = all_iv_data[p].instrument_name
              /\ NewLines[p].implied_volatility.h = all_iv_data[p].implied_volatility.h

\* a second run over two options: the ticker of the last one gave a
\* mark_iv of zero, the run wrote one row after the rows of the first run
Wit_C20_ZeroSkipped ==
    /\ main_pc = "returned"
    /\ runs = 2
    /\ Len(all_options.list) = 2
    /\ summary.kind = "result"
    /\ summary.mark_iv = IntNum(0)
    /\ Len(all_iv_data) = 1
    /\ csv_before.exists
    /\ Len(csv_file.rows) = Len(csv_before.rows) + 1

====
